---------------------------- MODULE Spec2Model ----------------------------
(***************************************************************************)
(* Contribution ledger and proof generation of finquarium_proof.           *)
(*                                                                         *)
(* Scores are floats in [0,1] in the source.  A score s is represented by  *)
(* the integer s * MAX_POSSIBLE_POINTS * ScoreScale, so that one reward    *)
(* point is ScoreScale units, 1.0 is One, and the normalisation floor      *)
(* min_score (0.001 point) is one unit.                                    *)
(* Quantities and native amounts of transactions are integers in units of  *)
(* 1e-8, the comparison tolerance of _validate_data.                       *)
(***************************************************************************)
EXTENDS Integers, Sequences, FiniteSets, TLC

\* ------------------------------------------------------------------ bounds
MaxRuns == 2
MaxProofs == 3
MaxTxs == 2

\* ------------------------------------------------------- program constants
MAX_POSSIBLE_POINTS == 630
MAX_POINTS == 630
ScoreScale == 1000
One == MAX_POSSIBLE_POINTS * ScoreScale

None == "None"

\* sha256 hex digests of the two account ids the model knows
Identities == {"h1", "h2"}
RawUserIds == {"u1", "u2"}

Sha256Hex(u) == IF u = "u1" THEN "h1" ELSE IF u = "u2" THEN "h2" ELSE "h?"

\* len(saved_user_id) == 64: the value already is a hex digest
IsDigest(x) == x \in Identities \cup {"h?"}

Min(a, b) == IF a <= b THEN a ELSE b
Max(a, b) == IF a >= b THEN a ELSE b
Abs(a) == IF a < 0 THEN 0 - a ELSE a

\* ------------------------------------------------------------ tables
\* Python's None where the source returns it in place of a record
NoneRec == [none |-> TRUE]

RECURSIVE SumScores(_)
SumScores(rows) ==
    IF rows = <<>> THEN 0 ELSE Head(rows).score + SumScores(Tail(rows))

\* session.query(ContributionProof).filter_by(account_id_hash=...).all()
ProofsOf(proofs, h) == SelectSeq(proofs, LAMBDA p : p.account_id_hash = h)

\* ---------------------------------------------------------------- scoring
\* calculate_volume_points with exclusive thresholds
calculate_volume_points_exclusive(volume) ==
    IF volume > 1000000 THEN 500
    ELSE IF volume > 100000 THEN 150
    ELSE IF volume > 10000 THEN 50
    ELSE IF volume > 1000 THEN 25
    ELSE IF volume > 100 THEN 5
    ELSE 1

calculate_volume_points(volume) ==
    IF volume >= 1000000 THEN 500
    ELSE IF volume >= 100000 THEN 150
    ELSE IF volume >= 10000 THEN 50
    ELSE IF volume >= 1000 THEN 25
    ELSE IF volume >= 100 THEN 5
    ELSE 1

calculate_diversity_points(unique_assets) ==
    IF unique_assets >= 5 THEN 30
    ELSE IF unique_assets >= 3 THEN 10
    ELSE 0

calculate_history_points(days) ==
    IF days >= 1095 THEN 100
    ELSE IF days >= 365 THEN 50
    ELSE 0

\* ContributionScorer.calculate_score(stats).total_points
calculate_score(stats) ==
    Max(calculate_volume_points(stats.total_volume)
          + calculate_diversity_points(Cardinality(stats.unique_assets))
          + calculate_history_points(stats.activity_period_days), 1)

min_score == 1

\* normalize_score without the max(..., min_score)
normalize_score_raw(points, max_points) ==
    (points * MAX_POINTS * ScoreScale) \div max_points

\* ContributionScorer.normalize_score(points, max_points), in score units;
\* the quotient is exact for max_points = MAX_POINTS
normalize_score(points, max_points) ==
    Max((points * MAX_POINTS * ScoreScale) \div max_points, min_score)

\* Proof.calculate_reward_points(stats)['total_points']
calculate_reward_points(stats) ==
    (IF stats.totalVolume >= 1000000 THEN 500
     ELSE IF stats.totalVolume >= 100000 THEN 150
     ELSE IF stats.totalVolume >= 10000 THEN 50
     ELSE IF stats.totalVolume >= 1000 THEN 25
     ELSE IF stats.totalVolume >= 100 THEN 5
     ELSE 0)
    + (IF Cardinality(stats.uniqueAssets) >= 5 THEN 30
       ELSE IF Cardinality(stats.uniqueAssets) >= 3 THEN 10
       ELSE 0)
    + (IF stats.activityPeriodDays >= 1095 THEN 100
       ELSE IF stats.activityPeriodDays >= 365 THEN 50
       ELSE 0)

\* ----------------------------------------------------------- reconciliation
\* {tx['id']: tx for tx in txs}: a later entry with the same id replaces an
\* earlier one
TxIds(txs) == {txs[i].id : i \in 1..Len(txs)}

TxById(txs, id) ==
    txs[CHOOSE i \in 1..Len(txs) :
            /\ txs[i].id = id
            /\ \A j \in (i+1)..Len(txs) : txs[j].id # id]

TxKeys == {"id", "type", "asset", "quantity", "native_currency", "native_amount"}

\* the comparison of one saved transaction with the fresh one of the same id
TxAgrees(saved_tx, fresh_tx) ==
    /\ saved_tx.id = fresh_tx.id
    /\ saved_tx.type = fresh_tx.type
    /\ saved_tx.asset = fresh_tx.asset
    /\ ~(Abs(saved_tx.quantity - fresh_tx.quantity) > 1)
    /\ saved_tx.native_currency = fresh_tx.native_currency
    /\ ~(Abs(saved_tx.native_amount - fresh_tx.native_amount) > 1)

\* Proof._validate_data(saved_data, fresh_data); a missing key raises
\* KeyError, which the handler turns into False
validate_data(saved_data, fresh_data) ==
    IF "user" \notin DOMAIN saved_data THEN FALSE
    ELSE
      LET saved_user_id ==
              IF "id" \in DOMAIN saved_data.user THEN saved_data.user.id ELSE None
          saved_hash ==
              IF IsDigest(saved_user_id) THEN saved_user_id
              ELSE Sha256Hex(saved_user_id)
      IN  IF saved_user_id # None /\ saved_hash # fresh_data.user.id_hash
          THEN FALSE
          ELSE IF "transactions" \notin DOMAIN saved_data THEN FALSE
          ELSE IF \E i \in 1..Len(saved_data.transactions) :
                     "id" \notin DOMAIN saved_data.transactions[i]
          THEN FALSE
          ELSE \A id \in TxIds(saved_data.transactions) :
                  /\ id \in TxIds(fresh_data.transactions)
                  /\ LET saved_tx == TxById(saved_data.transactions, id)
                         fresh_tx == TxById(fresh_data.transactions, id)
                     IN  /\ TxKeys \subseteq DOMAIN saved_tx
                         /\ TxAgrees(saved_tx, fresh_tx)

\* ------------------------------------------------------------------ inputs
AssetList == <<"BTC", "ETH", "SOL", "ADA", "XRP">>

\* CoinbaseAPI._format_transaction output for the i-th fetched transaction
FormattedTx(i) ==
    [id |-> i, type |-> "buy", asset |-> AssetList[i], quantity |-> 100,
     native_currency |-> "USD", native_amount |-> 200]

FormattedTxs(n) == [i \in 1..n |-> FormattedTx(i)]

\* (transaction count, total volume, activity period) of the snapshots the
\* exchange may return
SnapshotShapes ==
    { <<0, 0, 0>>, <<1, 50, 0>>, <<1, 500, 10>>, <<1, 1000000, 10>>,
      <<3, 1000000, 400>>, <<5, 1000000, 1095>> }

\* CoinbaseAPI.get_formatted_history(): the fresh snapshot of account h
FreshData(h, shape) ==
    [user |-> [id_hash |-> h, transaction_count |-> shape[1]],
     stats |-> [totalVolume |-> shape[2],
                transactionCount |-> shape[1],
                uniqueAssets |-> {AssetList[i] : i \in 1..shape[1]},
                activityPeriodDays |-> shape[3]],
     transactions |-> FormattedTxs(shape[1])]

FreshSnapshots == {FreshData(h, s) : h \in Identities, s \in SnapshotShapes}

\* the decrypted submissions a run may find in its input directory, given the
\* snapshot fresh: the export itself (with the digest or the raw user id), an
\* export of another account, an export whose first quantity was edited
SavedSubmissions(fresh) ==
    LET txs == fresh.transactions
        edited == IF txs = <<>> THEN txs
                  ELSE [txs EXCEPT ![1].quantity = @ + 5]
        raw == CHOOSE u \in RawUserIds : Sha256Hex(u) = fresh.user.id_hash
    IN  { [user |-> [id |-> fresh.user.id_hash], transactions |-> txs],
          [user |-> [id |-> raw], transactions |-> txs],
          [user |-> [id |-> CHOOSE h \in Identities : h # fresh.user.id_hash],
           transactions |-> txs],
          [user |-> [id |-> fresh.user.id_hash], transactions |-> edited] }

\* ------------------------------------------------------------------- state
VARIABLES
    user_contributions,   \* table user_contributions, in insertion order
    contribution_proofs,  \* table contribution_proofs, in insertion order
    clock,                \* datetime.utcnow()
    runs,                 \* the invocations of Proof.generate
    last_call,            \* the latest StorageService call and its result
    eval                  \* a pure function under evaluation: input and result

vars == <<user_contributions, contribution_proofs, clock, runs, last_call, eval>>

RunIds == 1..MaxRuns

\* session.query(UserContribution).filter_by(account_id_hash=h).first():
\* the index of the row, 0 for None
FirstContribution(table, h) ==
    IF \E i \in 1..Len(table) : table[i].account_id_hash = h
    THEN CHOOSE i \in 1..Len(table) :
            /\ table[i].account_id_hash = h
            /\ \A j \in 1..(i-1) : table[j].account_id_hash # h
    ELSE 0

\* the outcomes of the database during one session: no error, or an
\* SQLAlchemyError raised by the query, by a flush or by the commit
DbFaults == {"none", "query", "flush", "commit"}

\* Database.session(): commit at the end of the block, rollback on any error
session_scope(tables, pending, fault) ==
    IF fault = "none" THEN pending ELSE tables

\* --------------------------------------------------- Proof (proof.py)
\* Proof._check_existing_contribution(account_id_hash)
Proof_check_existing_contribution(table, h) ==
    LET i == FirstContribution(table, h)
    IN  IF i # 0
        THEN <<TRUE, [times_rewarded |-> table[i].times_rewarded,
                      transaction_count |-> table[i].transaction_count,
                      total_volume |-> table[i].total_volume,
                      activity_period_days |-> table[i].activity_period_days,
                      unique_assets |-> table[i].unique_assets,
                      latest_score |-> table[i].latest_score]>>
        ELSE <<FALSE, NoneRec>>

\* Proof._calculate_uniqueness_score(has_existing_contribution)
calculate_uniqueness_score(has_existing_contribution) ==
    IF has_existing_contribution THEN 0 ELSE One

\* the ProofResponse that Proof.generate assembles
generate_response(fresh_data, matches, has_existing, existing_data) ==
    [valid |-> matches /\ ~has_existing,
     score |-> Min(calculate_reward_points(fresh_data.stats) * ScoreScale, One),
     authenticity |-> IF matches THEN One ELSE 0,
     ownership |-> One,
     quality |-> IF fresh_data.stats.transactionCount > 0 THEN One ELSE 0,
     uniqueness |-> calculate_uniqueness_score(has_existing),
     attributes |->
        [account_id_hash |-> fresh_data.user.id_hash,
         transaction_count |-> fresh_data.stats.transactionCount,
         total_volume |-> fresh_data.stats.totalVolume,
         data_validated |-> matches,
         activity_period_days |-> fresh_data.stats.activityPeriodDays,
         unique_assets |-> Cardinality(fresh_data.stats.uniqueAssets),
         previously_contributed |-> has_existing,
         times_rewarded |-> IF has_existing THEN existing_data.times_rewarded
                            ELSE 0]]

\* the rows Proof._store_contribution writes for a rewarded run: the upsert
\* of the UserContribution and the new ContributionProof
Proof_store_rows(tables, account_id_hash, stats, proof_response, now) ==
      LET i == FirstContribution(tables.user_contributions, account_id_hash)
          upserted ==
            IF i # 0
            THEN [tables.user_contributions EXCEPT
                    ![i].transaction_count = stats.transactionCount,
                    ![i].total_volume = stats.totalVolume,
                    ![i].activity_period_days = stats.activityPeriodDays,
                    ![i].unique_assets = Cardinality(stats.uniqueAssets),
                    ![i].latest_score = proof_response.score,
                    ![i].latest_contribution_at = now]
            ELSE Append(tables.user_contributions,
                   [account_id_hash |-> account_id_hash,
                    transaction_count |-> stats.transactionCount,
                    total_volume |-> stats.totalVolume,
                    activity_period_days |-> stats.activityPeriodDays,
                    unique_assets |-> Cardinality(stats.uniqueAssets),
                    latest_score |-> proof_response.score,
                    times_rewarded |-> 0,
                    first_contribution_at |-> now,
                    latest_contribution_at |-> now])
          proof ==
            [account_id_hash |-> account_id_hash,
             score |-> proof_response.score,
             authenticity |-> proof_response.authenticity,
             ownership |-> proof_response.ownership,
             quality |-> proof_response.quality,
             uniqueness |-> proof_response.uniqueness,
             created_at |-> now]
      IN  [user_contributions |-> upserted,
           contribution_proofs |-> Append(tables.contribution_proofs, proof)]

\* variant: a proof row is written for a score of zero as well
Proof_store_writes_any_score(tables, account_id_hash, stats, proof_response, now) ==
    IF proof_response.score >= 0
    THEN Proof_store_rows(tables, account_id_hash, stats, proof_response, now)
    ELSE tables

\* variant: only the first contribution of an identity is stored
Proof_store_writes_first_only(tables, account_id_hash, stats, proof_response, now) ==
    IF /\ proof_response.score > 0
       /\ FirstContribution(tables.user_contributions, account_id_hash) = 0
    THEN Proof_store_rows(tables, account_id_hash, stats, proof_response, now)
    ELSE tables

\* the writes of Proof._store_contribution, pending in its session
Proof_store_writes(tables, account_id_hash, stats, proof_response, now) ==
    IF proof_response.score > 0
    THEN Proof_store_rows(tables, account_id_hash, stats, proof_response, now)
    ELSE tables

\* Proof._store_contribution(account_id_hash, stats, proof_response)
Proof_store_contribution(tables, account_id_hash, stats, proof_response, now, fault) ==
    session_scope(tables,
                  Proof_store_writes(tables, account_id_hash, stats,
                                     proof_response, now),
                  fault)

Tables == [user_contributions |-> user_contributions,
           contribution_proofs |-> contribution_proofs]

EmptyStats == [totalVolume |-> 0, transactionCount |-> 0, uniqueAssets |-> {},
               activityPeriodDays |-> 0]

IdleRun ==
    [pc |-> "idle", account_id_hash |-> None, stats |-> EmptyStats,
     matches |-> FALSE, has_existing |-> FALSE, existing_data |-> NoneRec,
     proof_response |-> NoneRec, error |-> "none", proofs_seen |-> 0,
     proof_row |-> 0]

NoCall == [op |-> "none"]

\* no pure function is under evaluation
NoEval == [op |-> "none"]

Init ==
    /\ user_contributions = <<>>
    /\ contribution_proofs = <<>>
    /\ clock = 1
    /\ runs = [r \in RunIds |-> IdleRun]
    /\ last_call = NoCall
    /\ eval = NoEval

\* runs are started in the order of their ids
MayStart(r) ==
    /\ runs[r].pc = "idle"
    /\ IF r = 1 THEN TRUE ELSE runs[r-1].pc # "idle"

\* Proof.generate raises before it reads the ledger: no token, no decrypted
\* JSON file, or the exchange request failed on its last attempt
GenerateAbort(r) ==
    /\ MayStart(r)
    /\ \E e \in {"ValueError", "HTTPError"} :
         runs' = [runs EXCEPT ![r].pc = "raised", ![r].error = e]
    /\ UNCHANGED <<user_contributions, contribution_proofs, clock, last_call, eval>>

\* Proof.generate up to the assembled response: fetch, lookup, reconcile,
\* score.  The lookup runs in a session of its own.
GenerateCheck(r) ==
    /\ MayStart(r)
    /\ \E fresh_data \in FreshSnapshots :
       \E decrypted_data \in SavedSubmissions(fresh_data) :
       LET existing == Proof_check_existing_contribution(
                           user_contributions, fresh_data.user.id_hash)
           matches == validate_data(decrypted_data, fresh_data)
       IN  runs' = [runs EXCEPT ![r] =
                      [pc |-> "checked",
                       account_id_hash |-> fresh_data.user.id_hash,
                       stats |-> fresh_data.stats,
                       matches |-> matches,
                       has_existing |-> existing[1],
                       existing_data |-> existing[2],
                       proof_response |->
                           generate_response(fresh_data, matches,
                                             existing[1], existing[2]),
                       error |-> "none",
                       proofs_seen |-> Len(contribution_proofs),
                       proof_row |-> 0]]
    /\ UNCHANGED <<user_contributions, contribution_proofs, clock, last_call, eval>>

\* the lookup session of Proof.generate raises SQLAlchemyError
GenerateCheckFails(r) ==
    /\ MayStart(r)
    /\ runs' = [runs EXCEPT ![r].pc = "raised", ![r].error = "SQLAlchemyError"]
    /\ UNCHANGED <<user_contributions, contribution_proofs, clock, last_call, eval>>

\* Proof.generate from _store_contribution to the return of the response
GenerateStore(r) ==
    /\ runs[r].pc = "checked"
    /\ \E fault \in DbFaults :
       LET after == Proof_store_contribution(Tables, runs[r].account_id_hash,
                        runs[r].stats, runs[r].proof_response, clock, fault)
           stored == Len(after.contribution_proofs) > Len(contribution_proofs)
       IN  /\ user_contributions' = after.user_contributions
           /\ contribution_proofs' = after.contribution_proofs
           /\ clock' = IF stored THEN clock + 1 ELSE clock
           /\ runs' = [runs EXCEPT
                         ![r].pc = IF fault = "none" THEN "returned" ELSE "raised",
                         ![r].error = IF fault = "none" THEN "none"
                                      ELSE "SQLAlchemyError",
                         ![r].proof_row =
                             IF stored THEN Len(after.contribution_proofs) ELSE 0]
    /\ UNCHANGED <<last_call, eval>>

Next ==
    \E r \in RunIds :
        \/ GenerateAbort(r)
        \/ GenerateCheck(r)
        \/ GenerateCheckFails(r)
        \/ GenerateStore(r)

Spec == Init /\ [][Next]_vars

\* the runs of Proof.generate one at a time: a run starts only when no other
\* run is between its lookup and its store
NoRunInFlight == \A r \in RunIds : runs[r].pc # "checked"

NextSerial ==
    \E r \in RunIds :
        \/ NoRunInFlight /\ GenerateAbort(r)
        \/ NoRunInFlight /\ GenerateCheck(r)
        \/ NoRunInFlight /\ GenerateCheckFails(r)
        \/ GenerateStore(r)

SpecSerial == Init /\ [][NextSerial]_vars

\* ------------------------------------- StorageService (services/storage.py)
\* the UserContribution of h with the latest latest_contribution_at: index, 0
\* for None
LatestContribution(table, h) ==
    IF \E i \in 1..Len(table) : table[i].account_id_hash = h
    THEN CHOOSE i \in 1..Len(table) :
            /\ table[i].account_id_hash = h
            /\ \A j \in 1..Len(table) :
                  table[j].account_id_hash = h =>
                     \/ table[j].latest_contribution_at < table[i].latest_contribution_at
                     \/ (table[j].latest_contribution_at = table[i].latest_contribution_at
                         /\ i <= j)
    ELSE 0

RECURSIVE CountRewarded(_)
CountRewarded(rows) ==
    IF rows = <<>> THEN 0
    ELSE (IF Head(rows).score > 0 THEN 1 ELSE 0) + CountRewarded(Tail(rows))

\* StorageService.check_existing_contribution(account_id_hash)
StorageService_check_existing_contribution(tables, h) ==
    LET previous_proofs == ProofsOf(tables.contribution_proofs, h)
        i == LatestContribution(tables.user_contributions, h)
    IN  IF previous_proofs # <<>>
        THEN <<TRUE,
               [times_rewarded |-> CountRewarded(previous_proofs),
                transaction_count |->
                    IF i # 0 THEN tables.user_contributions[i].transaction_count ELSE 0,
                total_volume |->
                    IF i # 0 THEN tables.user_contributions[i].total_volume ELSE 0,
                activity_period_days |->
                    IF i # 0 THEN tables.user_contributions[i].activity_period_days ELSE 0,
                unique_assets |->
                    IF i # 0 THEN tables.user_contributions[i].unique_assets ELSE 0,
                latest_score |-> SumScores(previous_proofs)]>>
        ELSE <<FALSE, NoneRec>>

\* variant: a new UserContribution is inserted by every rewarded call
StorageService_store_writes_always_insert(tables, data, proof, now) ==
    [user_contributions |->
        Append(tables.user_contributions,
               [account_id_hash |-> data.account_id_hash,
                transaction_count |-> data.stats.transaction_count,
                total_volume |-> data.stats.total_volume,
                activity_period_days |-> data.stats.activity_period_days,
                unique_assets |-> Cardinality(data.stats.unique_assets),
                latest_score |-> proof.score,
                times_rewarded |-> 0,
                first_contribution_at |-> now,
                latest_contribution_at |-> now]),
     contribution_proofs |->
        Append(tables.contribution_proofs,
               [account_id_hash |-> data.account_id_hash,
                score |-> proof.score,
                authenticity |-> proof.authenticity,
                ownership |-> proof.ownership,
                quality |-> proof.quality,
                uniqueness |-> proof.uniqueness,
                created_at |-> now])]

\* variant: the update of an existing UserContribution counts the reward
StorageService_store_writes_counting(tables, data, proof, now) ==
    LET i == FirstContribution(tables.user_contributions, data.account_id_hash)
    IN  [user_contributions |->
            IF i # 0
            THEN [tables.user_contributions EXCEPT
                    ![i].transaction_count = data.stats.transaction_count,
                    ![i].total_volume = data.stats.total_volume,
                    ![i].activity_period_days = data.stats.activity_period_days,
                    ![i].unique_assets = Cardinality(data.stats.unique_assets),
                    ![i].latest_score = proof.score,
                    ![i].times_rewarded = @ + 1,
                    ![i].latest_contribution_at = now]
            ELSE Append(tables.user_contributions,
                   [account_id_hash |-> data.account_id_hash,
                    transaction_count |-> data.stats.transaction_count,
                    total_volume |-> data.stats.total_volume,
                    activity_period_days |-> data.stats.activity_period_days,
                    unique_assets |-> Cardinality(data.stats.unique_assets),
                    latest_score |-> proof.score,
                    times_rewarded |-> 0,
                    first_contribution_at |-> now,
                    latest_contribution_at |-> now]),
         contribution_proofs |->
            Append(tables.contribution_proofs,
                   [account_id_hash |-> data.account_id_hash,
                    score |-> proof.score,
                    authenticity |-> proof.authenticity,
                    ownership |-> proof.ownership,
                    quality |-> proof.quality,
                    uniqueness |-> proof.uniqueness,
                    created_at |-> now])]

\* the writes of StorageService.store_contribution before its commit
StorageService_store_writes(tables, data, proof, now) ==
    LET i == FirstContribution(tables.user_contributions, data.account_id_hash)
        upserted ==
          IF i # 0
          THEN [tables.user_contributions EXCEPT
                  ![i].transaction_count = data.stats.transaction_count,
                  ![i].total_volume = data.stats.total_volume,
                  ![i].activity_period_days = data.stats.activity_period_days,
                  ![i].unique_assets = Cardinality(data.stats.unique_assets),
                  ![i].latest_score = proof.score,
                  ![i].latest_contribution_at = now]
          ELSE Append(tables.user_contributions,
                 [account_id_hash |-> data.account_id_hash,
                  transaction_count |-> data.stats.transaction_count,
                  total_volume |-> data.stats.total_volume,
                  activity_period_days |-> data.stats.activity_period_days,
                  unique_assets |-> Cardinality(data.stats.unique_assets),
                  latest_score |-> proof.score,
                  times_rewarded |-> 0,
                  first_contribution_at |-> now,
                  latest_contribution_at |-> now])
        proof_record ==
          [account_id_hash |-> data.account_id_hash,
           score |-> proof.score,
           authenticity |-> proof.authenticity,
           ownership |-> proof.ownership,
           quality |-> proof.quality,
           uniqueness |-> proof.uniqueness,
           created_at |-> now]
    IN  [user_contributions |-> upserted,
         contribution_proofs |-> Append(tables.contribution_proofs, proof_record)]

\* variant: the upsert is committed on its own, before the proof row is added
StorageService_store_contribution_two_commits(tables, data, proof, now, fault) ==
    IF proof.score > 0
    THEN IF fault = "none"
         THEN StorageService_store_writes(tables, data, proof, now)
         ELSE IF fault = "commit"
         THEN [StorageService_store_writes(tables, data, proof, now) EXCEPT
                 !.contribution_proofs = tables.contribution_proofs]
         ELSE tables
    ELSE tables

\* StorageService.store_contribution(data, proof, ...): the tables after the
\* call; an SQLAlchemyError anywhere in the block rolls the session back
StorageService_store_contribution(tables, data, proof, now, fault) ==
    IF proof.score > 0
    THEN IF fault = "none"
         THEN StorageService_store_writes(tables, data, proof, now)
         ELSE tables
    ELSE tables

\* the TradingStats of the snapshots of SnapshotShapes
TradingStatsOf(shape) ==
    [total_volume |-> shape[2], transaction_count |-> shape[1],
     unique_assets |-> {AssetList[i] : i \in 1..shape[1]},
     activity_period_days |-> shape[3]]

StoreShapes == { <<1, 500, 10>>, <<5, 1000000, 1095>> }

ContributionDatas ==
    {[account_id_hash |-> h, stats |-> TradingStatsOf(s)] :
        h \in Identities, s \in StoreShapes}

\* the proofs a caller may hand to store_contribution
ProofScores == {0, min_score, 5 * ScoreScale, One}

ProofResponses ==
    [score : ProofScores, authenticity : {0, One}, ownership : {One},
     quality : {One}, uniqueness : {One}]

\* a call of StorageService.check_existing_contribution
CheckExistingContribution(h) ==
    /\ \E fault \in {"none", "query"} :
         last_call' =
            [op |-> "check_existing_contribution", account_id_hash |-> h,
             raised |-> fault # "none",
             result |-> IF fault = "none"
                        THEN StorageService_check_existing_contribution(Tables, h)
                        ELSE <<FALSE, NoneRec>>]
    /\ UNCHANGED <<user_contributions, contribution_proofs, clock, runs, eval>>

\* a call of StorageService.store_contribution
StoreContribution(data, proof) ==
    /\ Len(contribution_proofs) < MaxProofs
    /\ \E fault \in DbFaults :
       LET after == StorageService_store_contribution(Tables, data, proof,
                                                      clock, fault)
       IN  /\ user_contributions' = after.user_contributions
           /\ contribution_proofs' = after.contribution_proofs
           /\ clock' = IF after # Tables THEN clock + 1 ELSE clock
           /\ last_call' =
                [op |-> "store_contribution",
                 account_id_hash |-> data.account_id_hash,
                 raised |-> proof.score > 0 /\ fault # "none",
                 result |-> <<proof.score > 0, NoneRec>>]
    /\ UNCHANGED <<runs, eval>>

NextStorage ==
    \/ \E h \in Identities : CheckExistingContribution(h)
    \/ \E data \in ContributionDatas, proof \in ProofResponses :
          StoreContribution(data, proof)

SpecStorage == Init /\ [][NextStorage]_vars

\* ------------------------------------------------------------- properties
ScoreOf(h) == SumScores(ProofsOf(contribution_proofs, h))

Finished(r) == runs[r].pc = "returned"
Assembled(r) == runs[r].pc \in {"checked", "returned"}

\* round(score * MAX_POINTS), Python's round-half-to-even, of a score in units
RoundPoints(score) ==
    LET q == score \div ScoreScale
        rem == score % ScoreScale
    IN  IF 2 * rem > ScoreScale THEN q + 1
        ELSE IF 2 * rem < ScoreScale THEN q
        ELSE IF q % 2 = 0 THEN q ELSE q + 1

\* the proof rows of h that existed when run r made its lookup
PriorRows(r) ==
    ProofsOf(SubSeq(contribution_proofs, 1, runs[r].proofs_seen),
             runs[r].account_id_hash)

\* differentialPoints of run r as the ledger design defines them
FreshPoints(r) == calculate_reward_points(runs[r].stats)
PriorPoints(r) == RoundPoints(SumScores(PriorRows(r)))
DifferentialPoints(r) == Max(0, FreshPoints(r) - PriorPoints(r))

\* C1: for every identity the scores of its persisted proof rows sum to at
\* most 1.0 (MAX_POINTS raw points), whatever serialized runs were made.
C1_LifetimeScoreAtMostOne ==
    \A h \in Identities : ScoreOf(h) <= One

\* C2: a run whose reconciliation verdict `matches` is false has score 0 and
\* persists no proof row.
C2_MismatchScoresZero ==
    \A r \in RunIds :
        (Assembled(r) /\ ~runs[r].matches) =>
            /\ runs[r].proof_response.score = 0
            /\ runs[r].proof_row = 0

\* C3: when the same fresh snapshot is submitted twice in a row for one
\* identity, the second run having seen the first run's proof row, the second
\* run has differentialPoints = 0 and appends no proof row.
C3_ResubmissionAwardsNothing ==
    \A r1, r2 \in RunIds :
        ( /\ r1 # r2
          /\ Finished(r1) /\ Finished(r2)
          /\ runs[r1].matches /\ runs[r2].matches
          /\ runs[r1].account_id_hash = runs[r2].account_id_hash
          /\ runs[r1].stats = runs[r2].stats
          /\ runs[r1].proof_row # 0
          /\ runs[r2].proofs_seen = runs[r1].proof_row )
        => /\ DifferentialPoints(r2) = 0
           /\ runs[r2].proof_row = 0

\* C4: a run whose differentialPoints is 0 persists nothing, and still
\* returns an attestation with valid = true and score = 0.
C4_ZeroDifferentialValidZero ==
    \A r \in RunIds :
        (Finished(r) /\ runs[r].matches /\ DifferentialPoints(r) = 0) =>
            /\ runs[r].proof_row = 0
            /\ runs[r].proof_response.valid
            /\ runs[r].proof_response.score = 0

\* what the ledger design requires lookup(h) to report
LookupExpected(h) ==
    LET rows == ProofsOf(contribution_proofs, h)
    IN  [exists |-> rows # <<>>,
         cumulative |-> SumScores(rows),
         rewarded |-> Cardinality({i \in 1..Len(rows) : rows[i].score > 0})]

LookupAgrees(result, h) ==
    /\ result[1] = LookupExpected(h).exists
    /\ result[1] =>
          /\ result[2].latest_score = LookupExpected(h).cumulative
          /\ result[2].times_rewarded = LookupExpected(h).rewarded
    /\ ~result[1] => result[2] = NoneRec

\* C5: lookup(h) reports exists exactly when h has a proof row, and then the
\* sum of the scores of all proof rows of h as the prior cumulative score and
\* the number of rows with score > 0 as timesRewarded; this for the lookup of
\* the storage service and for the lookup Proof.generate performs.
C5_LookupReportsHistory ==
    \A h \in Identities :
        /\ LookupAgrees(StorageService_check_existing_contribution(Tables, h), h)
        /\ LookupAgrees(Proof_check_existing_contribution(user_contributions, h), h)

\* C6: a serialized run with freshPoints > priorPoints appends exactly one
\* proof row, of score (freshPoints - priorPoints) / MAX_POINTS, and the
\* cumulative score of the identity is then freshPoints / MAX_POINTS.
C6_DifferentialAward ==
    \A r \in RunIds :
        (Finished(r) /\ runs[r].matches /\ FreshPoints(r) > PriorPoints(r)) =>
            /\ runs[r].proof_row = runs[r].proofs_seen + 1
            /\ contribution_proofs[runs[r].proof_row].score =
                  (FreshPoints(r) - PriorPoints(r)) * ScoreScale
            /\ SumScores(ProofsOf(SubSeq(contribution_proofs, 1, runs[r].proof_row),
                                  runs[r].account_id_hash))
                  = FreshPoints(r) * ScoreScale

\* C7: a call of record (store_contribution) changes the store by both the
\* upserted ContributionRecord and the appended proof row, or by neither; a
\* call that raised a persistence error left the store as it was.
C7_RecordAtomic ==
    [][ last_call'.op = "store_contribution" =>
          LET h == last_call'.account_id_hash
              appended == Len(contribution_proofs') = Len(contribution_proofs) + 1
              upserted == user_contributions' # user_contributions
              i == FirstContribution(user_contributions', h)
          IN  /\ appended \/ contribution_proofs' = contribution_proofs
              /\ appended <=> upserted
              /\ appended =>
                    /\ SubSeq(contribution_proofs', 1, Len(contribution_proofs))
                          = contribution_proofs
                    /\ contribution_proofs'[Len(contribution_proofs')].account_id_hash = h
                    /\ i # 0
                    /\ user_contributions'[i].latest_score =
                          contribution_proofs'[Len(contribution_proofs')].score
                    /\ user_contributions'[i].latest_contribution_at =
                          contribution_proofs'[Len(contribution_proofs')].created_at
              /\ last_call'.raised => ~appended /\ ~upserted
      ]_vars

\* a store_contribution call raised after an earlier call had persisted rows
C7_Witness ==
    /\ last_call.op = "store_contribution"
    /\ last_call.raised
    /\ contribution_proofs # <<>>
    /\ user_contributions # <<>>

\* C8: every step leaves the proof rows as they are or appends exactly one
\* row with score > 0; no row is modified or deleted, so no identity's summed
\* score decreases.
C8_ProofRowsAppendOnly ==
    [][ /\ Len(contribution_proofs') \in
              {Len(contribution_proofs), Len(contribution_proofs) + 1}
        /\ SubSeq(contribution_proofs', 1, Len(contribution_proofs))
              = contribution_proofs
        /\ Len(contribution_proofs') = Len(contribution_proofs) + 1 =>
              contribution_proofs'[Len(contribution_proofs')].score > 0
        /\ \A h \in Identities :
              SumScores(ProofsOf(contribution_proofs', h)) >= ScoreOf(h)
      ]_vars

\* one run appended a row and a later run of the same identity returned
\* without appending one
C8_Witness ==
    \E r1, r2 \in RunIds :
        /\ Finished(r1) /\ Finished(r2)
        /\ runs[r1].account_id_hash = runs[r2].account_id_hash
        /\ runs[r1].proof_row # 0
        /\ runs[r2].proof_row = 0
        /\ runs[r2].proofs_seen >= runs[r1].proof_row

\* C9: two runs of one identity that both made their lookup before either
\* stored computed from the same prior state, and each persists a proof row
\* carrying its whole score: the identity is credited twice.
C9_ConcurrentRunsBothCredited ==
    \A r1, r2 \in RunIds :
        ( /\ r1 # r2
          /\ Finished(r1) /\ Finished(r2)
          /\ runs[r1].account_id_hash = runs[r2].account_id_hash
          /\ Len(PriorRows(r1)) = Len(PriorRows(r2))
          /\ runs[r1].proof_response.score > 0
          /\ runs[r2].proof_response.score > 0 )
        => /\ runs[r1].has_existing = runs[r2].has_existing
           /\ runs[r1].existing_data = runs[r2].existing_data
           /\ runs[r1].proof_row # 0
           /\ runs[r2].proof_row # 0
           /\ runs[r1].proof_row # runs[r2].proof_row
           /\ contribution_proofs[runs[r1].proof_row].score
                 = runs[r1].proof_response.score
           /\ contribution_proofs[runs[r2].proof_row].score
                 = runs[r2].proof_response.score
           /\ ScoreOf(runs[r1].account_id_hash) >=
                 runs[r1].proof_response.score + runs[r2].proof_response.score

\* two runs of one identity with the same snapshot interleaved their lookups
\* and stores, and both rows are in the table
C9_Witness ==
    \E r1, r2 \in RunIds :
        /\ r1 # r2
        /\ Finished(r1) /\ Finished(r2)
        /\ runs[r1].account_id_hash = runs[r2].account_id_hash
        /\ runs[r1].stats = runs[r2].stats
        /\ Len(PriorRows(r1)) = Len(PriorRows(r2))
        /\ runs[r1].proof_row # 0
        /\ runs[r2].proof_row # 0

\* C10: the uniqueness sub-score is 1.0 for a first contribution and a
\* discounted, positive value for a repeat contribution; never 0 for a repeat
\* contribution with differential value.
C10_UniquenessPolicy ==
    \A r \in RunIds :
        Assembled(r) =>
            /\ ~runs[r].has_existing => runs[r].proof_response.uniqueness = One
            /\ (runs[r].has_existing /\ DifferentialPoints(r) > 0) =>
                  /\ runs[r].proof_response.uniqueness > 0
                  /\ runs[r].proof_response.uniqueness < One

\* ------------------------------------------- reconciliation, as a function
\* Proof._validate_data lets an exception other than KeyError and TypeError
\* escape: saved_data['user'] of null has no attribute get
validate_data_raises(saved_data, fresh_data) ==
    IF "user" \in DOMAIN saved_data /\ saved_data.user = NoneRec
    THEN "AttributeError"
    ELSE "none"

\* the outcome of a call of Proof._validate_data
validate_data_outcome(saved_data, fresh_data) ==
    IF validate_data_raises(saved_data, fresh_data) # "none"
    THEN [raised |-> validate_data_raises(saved_data, fresh_data),
          value |-> FALSE]
    ELSE [raised |-> "none", value |-> validate_data(saved_data, fresh_data)]

\* my_proof's Proof._validate_data: it compares the raw user ids, and both
\* KeyError and TypeError (user of null) are caught
my_proof_validate_data(saved_data, fresh_data) ==
    IF "user" \notin DOMAIN saved_data THEN FALSE
    ELSE IF saved_data.user = NoneRec THEN FALSE
    ELSE IF "id" \notin DOMAIN saved_data.user THEN FALSE
    ELSE IF saved_data.user.id # fresh_data.user.id THEN FALSE
    ELSE IF "transactions" \notin DOMAIN saved_data THEN FALSE
    ELSE IF \E i \in 1..Len(saved_data.transactions) :
               "id" \notin DOMAIN saved_data.transactions[i]
    THEN FALSE
    ELSE \A id \in TxIds(saved_data.transactions) :
            /\ id \in TxIds(fresh_data.transactions)
            /\ LET saved_tx == TxById(saved_data.transactions, id)
                   fresh_tx == TxById(fresh_data.transactions, id)
               IN  /\ TxKeys \subseteq DOMAIN saved_tx
                   /\ TxAgrees(saved_tx, fresh_tx)

\* formatted transactions of the exports under reconciliation
TxA == [id |-> 1, timestamp |-> 10, type |-> "buy", asset |-> "BTC",
        quantity |-> 100, native_currency |-> "USD", native_amount |-> 200]
TxB == [id |-> 2, timestamp |-> 20, type |-> "sell", asset |-> "ETH",
        quantity |-> 50, native_currency |-> "USD", native_amount |-> 300]
\* TxA with the quantity off by the tolerance, off by more, with another
\* timestamp, and without its asset key
TxA_near == [TxA EXCEPT !.quantity = 101]
TxA_edited == [TxA EXCEPT !.quantity = 105]
TxA_later == [TxA EXCEPT !.timestamp = 11]
TxA_no_asset == [k \in DOMAIN TxA \ {"asset"} |-> TxA[k]]

SavedTxs == {TxA, TxA_near, TxA_edited, TxA_later, TxA_no_asset, TxB}
FreshTxs == {TxA, TxA_edited, TxB}

Lists(S) == UNION {[1..n -> S] : n \in 0..MaxTxs}

RECURSIVE TotalVolume(_)
\* CoinbaseAPI._calculate_stats: totalVolume
TotalVolume(txs) ==
    IF txs = <<>> THEN 0
    ELSE Abs(Head(txs).native_amount) + TotalVolume(Tail(txs))

\* CoinbaseAPI._calculate_stats over formatted transactions
StatsOfTxs(txs) ==
    [totalVolume |-> TotalVolume(txs),
     transactionCount |-> Len(txs),
     uniqueAssets |-> {txs[i].asset : i \in 1..Len(txs)}]

\* the fresh snapshots of account u1 (digest h1); user carries the raw id
\* my_proof keeps and the digest finquarium_proof keeps
ReconcileFresh ==
    {[user |-> [id |-> "u1", id_hash |-> "h1"],
      stats |-> StatsOfTxs(txs),
      transactions |-> txs] : txs \in Lists(FreshTxs)}

\* the user objects of a submission: digest, digest of another account, raw
\* id, no id, null
SavedUsers == {[id |-> "h1"], [id |-> "h2"], [id |-> "u1"],
               [name |-> "n"], NoneRec}

WellFormedSavedTxs == SavedTxs \ {TxA_no_asset}

\* the submissions: any user object, any transaction list, the stats of the
\* list or stats with an inflated volume; or an object without user key
ReconcileSaved ==
    {[user |-> u, stats |-> st, transactions |-> txs] :
        u \in SavedUsers,
        txs \in Lists(SavedTxs),
        st \in {[totalVolume |-> 1000000, transactionCount |-> 9,
                 uniqueAssets |-> {"BTC", "ETH", "SOL"}]}}
    \cup
    {[user |-> u, stats |-> StatsOfTxs(txs), transactions |-> txs] :
        u \in SavedUsers, txs \in Lists(WellFormedSavedTxs)}
    \cup
    {[stats |-> StatsOfTxs(txs), transactions |-> txs] :
        txs \in Lists(WellFormedSavedTxs)}

InitReconcile ==
    /\ user_contributions = <<>>
    /\ contribution_proofs = <<>>
    /\ clock = 1
    /\ runs = [r \in RunIds |-> IdleRun]
    /\ last_call = NoCall
    /\ \E saved_data \in ReconcileSaved, fresh_data \in ReconcileFresh :
          eval = [op |-> "pending", saved_data |-> saved_data,
                  fresh_data |-> fresh_data]

\* a call of finquarium_proof's Proof._validate_data
ValidateData ==
    /\ eval.op = "pending"
    /\ eval' = [op |-> "_validate_data",
                saved_data |-> eval.saved_data,
                fresh_data |-> eval.fresh_data,
                result |-> validate_data_outcome(eval.saved_data,
                                                 eval.fresh_data)]
    /\ UNCHANGED <<user_contributions, contribution_proofs, clock, runs,
                   last_call>>

\* a call of my_proof's Proof._validate_data
MyProofValidateData ==
    /\ eval.op = "pending"
    /\ eval' = [op |-> "my_proof._validate_data",
                saved_data |-> eval.saved_data,
                fresh_data |-> eval.fresh_data,
                result |-> [raised |-> "none",
                            value |-> my_proof_validate_data(eval.saved_data,
                                                             eval.fresh_data)]]
    /\ UNCHANGED <<user_contributions, contribution_proofs, clock, runs,
                   last_call>>

NextReconcile == ValidateData \/ MyProofValidateData

SpecReconcile == InitReconcile /\ [][NextReconcile]_vars

Reconciled == eval.op = "_validate_data"

\* the identity a submission embeds: user.id, or None when it carries none
EmbeddedIdentity(saved_data) ==
    IF "user" \notin DOMAIN saved_data THEN None
    ELSE IF "id" \notin DOMAIN saved_data.user THEN None
    ELSE saved_data.user.id

\* C11: a submission whose embedded identity hash is not equal to the hash
\* recomputed from the fresh data, or that carries no identity, never gets
\* matches = true (my_proof: the same for the raw user id).
C11_IdentityAlwaysChecked ==
    /\ Reconciled =>
          (EmbeddedIdentity(eval.saved_data) # eval.fresh_data.user.id_hash
              => ~eval.result.value)
    /\ eval.op = "my_proof._validate_data" =>
          (EmbeddedIdentity(eval.saved_data) # eval.fresh_data.user.id
              => ~eval.result.value)

TypeRank(t) == IF t = "buy" THEN 1 ELSE 2

\* tx1 sorts before tx2 by (timestamp, type)
TxBefore(tx1, tx2) ==
    \/ tx1.timestamp < tx2.timestamp
    \/ tx1.timestamp = tx2.timestamp /\ TypeRank(tx1.type) < TypeRank(tx2.type)

RECURSIVE InsertTx(_, _)
InsertTx(tx, sorted) ==
    IF sorted = <<>> THEN <<tx>>
    ELSE IF TxBefore(tx, Head(sorted)) THEN <<tx>> \o sorted
    ELSE <<Head(sorted)>> \o InsertTx(tx, Tail(sorted))

RECURSIVE SortTxs(_)
\* the list sorted by (timestamp, type), ties in their original order
SortTxs(txs) ==
    IF txs = <<>> THEN <<>>
    ELSE InsertTx(txs[Len(txs)], SortTxs(SubSeq(txs, 1, Len(txs) - 1)))

\* C12: matches = true only if the two transaction lists have the same
\* length and, paired after sorting by (timestamp, type), every pair agrees
\* on type and asset, on quantity and native amount within 1e-8, and on the
\* timestamp.
C12_TransactionSetsAgree ==
    (Reconciled /\ eval.result.value) =>
        LET saved_txs == SortTxs(eval.saved_data.transactions)
            fresh_txs == SortTxs(eval.fresh_data.transactions)
        IN  /\ Len(saved_txs) = Len(fresh_txs)
            /\ \A i \in 1..Len(saved_txs) :
                  /\ saved_txs[i].type = fresh_txs[i].type
                  /\ saved_txs[i].asset = fresh_txs[i].asset
                  /\ Abs(saved_txs[i].quantity - fresh_txs[i].quantity) <= 1
                  /\ Abs(saved_txs[i].native_amount - fresh_txs[i].native_amount) <= 1
                  /\ saved_txs[i].timestamp = fresh_txs[i].timestamp

\* C13: matches = true only if the aggregate stats of the submission agree
\* with the fresh ones: total volume within 1e-8, equal transaction count,
\* equal sets of unique assets.
C13_AggregateStatsAgree ==
    (Reconciled /\ eval.result.value) =>
        /\ "stats" \in DOMAIN eval.saved_data
        /\ Abs(eval.saved_data.stats.totalVolume
                 - eval.fresh_data.stats.totalVolume) <= 1
        /\ eval.saved_data.stats.transactionCount
              = eval.fresh_data.stats.transactionCount
        /\ eval.saved_data.stats.uniqueAssets = eval.fresh_data.stats.uniqueAssets

\* a submission with a missing key or a field of the wrong shape
Malformed(saved_data) ==
    \/ "user" \notin DOMAIN saved_data
    \/ saved_data.user = NoneRec
    \/ \E i \in 1..Len(saved_data.transactions) :
          ~(TxKeys \subseteq DOMAIN saved_data.transactions[i])

\* C14: the validator never lets an exception escape, and returns
\* matches = false for every malformed submission.
C14_FailsClosed ==
    Reconciled =>
        /\ eval.result.raised = "none"
        /\ Malformed(eval.saved_data) => ~eval.result.value

IndexPerms(n) ==
    {p \in [1..n -> 1..n] : \A i, j \in 1..n : p[i] = p[j] => i = j}

Permuted(txs, p) == [i \in 1..Len(txs) |-> txs[p[i]]]

\* C15: the verdict is the same for every order of the submitted list and of
\* the fresh list.
C15_OrderIndependent ==
    Reconciled =>
        \A ps \in IndexPerms(Len(eval.saved_data.transactions)) :
        \A pf \in IndexPerms(Len(eval.fresh_data.transactions)) :
            validate_data_outcome(
                [eval.saved_data EXCEPT
                    !.transactions = Permuted(eval.saved_data.transactions, ps)],
                [eval.fresh_data EXCEPT
                    !.transactions = Permuted(eval.fresh_data.transactions, pf)])
              = eval.result

----------------------------------------------------------------------------
\* BinanceValidator.validate_transactions (services/binance.py), as a
\* function of the statement and of what get_my_trades answers per pair.
\* Prices, quantities and fees are integers in units of 0.5e-8, so that a
\* difference below and a difference of exactly 1e-8 are both expressible;
\* times are whole seconds.

MaxStatement == 2

\* 0.00000001 in units of 0.5e-8
ValueTolerance == 2

\* time_diff < 5 (seconds)
TimeTolerance == 5

Symbols == {"BTCUSDT", "ETHUSDT"}

\* tx.side.upper()
Upper(side) ==
    CASE side = "buy" -> "BUY"
      [] side = "sell" -> "SELL"
      [] OTHER -> side

\* one live trade against one statement transaction (lines 333-348)
trade_matches(tx, trade) ==
    LET is_buyer == Upper(tx.side) = "BUY"
        time_diff == Abs(tx.timestamp - trade.time)
        price_matches == Abs(tx.price - trade.price) < ValueTolerance
        qty_matches == Abs(tx.quantity - trade.qty) < ValueTolerance
        fee_matches == Abs(tx.fee - trade.commission) < ValueTolerance
        asset_matches == tx.fee_asset = trade.commissionAsset
        side_matches == is_buyer = trade.isBuyer
    IN  /\ time_diff < TimeTolerance
        /\ price_matches /\ qty_matches /\ fee_matches
        /\ asset_matches /\ side_matches

found_match(tx, api_trades) ==
    \E i \in 1..Len(api_trades) : trade_matches(tx, api_trades[i])

RECURSIVE SymbolOrder(_)
\* the keys of symbol_groups, in the order of first occurrence
SymbolOrder(transactions) ==
    IF transactions = <<>> THEN <<>>
    ELSE LET init == SymbolOrder(SubSeq(transactions, 1, Len(transactions) - 1))
             symbol == transactions[Len(transactions)].symbol
         IN  IF \E i \in 1..Len(init) : init[i] = symbol
             THEN init ELSE Append(init, symbol)

SymbolGroup(transactions, symbol) ==
    SelectSeq(transactions, LAMBDA tx : tx.symbol = symbol)

\* what validate_transactions hands back: a (bool, reason) pair, or nothing
Returned(ok, kind, symbol, timestamp) ==
    [returned |-> TRUE, ok |-> ok,
     reason |-> [kind |-> kind, symbol |-> symbol, timestamp |-> timestamp]]

ReturnedNothing ==
    [returned |-> FALSE, ok |-> FALSE,
     reason |-> [kind |-> "none", symbol |-> None, timestamp |-> -1]]

RECURSIVE validate_symbols(_, _, _)
\* the loop over symbol_groups (lines 271-363)
validate_symbols(symbols, transactions, api) ==
    IF symbols = <<>> THEN ReturnedNothing
    ELSE LET symbol == Head(symbols)
             txs == SymbolGroup(transactions, symbol)
             unmatched == {i \in 1..Len(txs) :
                              ~found_match(txs[i], api[symbol].trades)}
         IN  IF api[symbol].raised
             THEN Returned(FALSE, "Validation failed", symbol, -1)
             ELSE IF api[symbol].trades = <<>>
             THEN validate_symbols(Tail(symbols), transactions, api)
             ELSE IF unmatched # {}
             THEN Returned(FALSE, "Transaction validation failed", symbol,
                           txs[CHOOSE i \in unmatched :
                                  \A j \in unmatched : i <= j].timestamp)
             ELSE Returned(TRUE, "All transactions validated successfully",
                           None, -1)

validate_transactions(transactions, api) ==
    validate_symbols(SymbolOrder(transactions), transactions, api)

StatementBTC ==
    [timestamp |-> 100, symbol |-> "BTCUSDT", side |-> "BUY", price |-> 1000,
     quantity |-> 10, fee |-> 4, fee_asset |-> "BNB"]

StatementETH ==
    [timestamp |-> 200, symbol |-> "ETHUSDT", side |-> "sell", price |-> 500,
     quantity |-> 20, fee |-> 6, fee_asset |-> "USDT"]

Statements == UNION {[1..n -> {StatementBTC, StatementETH}] : n \in 0..MaxStatement}

\* the live trade that the statement row was exported from
TradeOf(tx) ==
    [time |-> tx.timestamp, price |-> tx.price, qty |-> tx.quantity,
     commission |-> tx.fee, commissionAsset |-> tx.fee_asset,
     isBuyer |-> (Upper(tx.side) = "BUY")]

\* live trades around a statement row: the same trade, and trades that
\* differ from it in one field, below or at the tolerance
TradesNear(tx) ==
    LET t == TradeOf(tx)
    IN  {t,
         [t EXCEPT !.price = @ + 1], [t EXCEPT !.price = @ + ValueTolerance],
         [t EXCEPT !.qty = @ + ValueTolerance],
         [t EXCEPT !.commission = @ - ValueTolerance],
         [t EXCEPT !.time = @ + 4], [t EXCEPT !.time = @ - TimeTolerance],
         [t EXCEPT !.commissionAsset = "BTC"],
         [t EXCEPT !.isBuyer = ~@]}

\* what get_my_trades answers for the pair of tx: it raises, or a list
LiveAnswers(tx) ==
    {[raised |-> TRUE, trades |-> <<>>], [raised |-> FALSE, trades |-> <<>>]}
    \cup {[raised |-> FALSE, trades |-> <<t>>] : t \in TradesNear(tx)}
    \cup {[raised |-> FALSE,
           trades |-> <<[TradeOf(tx) EXCEPT !.price = @ + ValueTolerance],
                        TradeOf(tx)>>]}

InitStatement ==
    /\ user_contributions = <<>>
    /\ contribution_proofs = <<>>
    /\ clock = 1
    /\ runs = [r \in RunIds |-> IdleRun]
    /\ last_call = NoCall
    /\ \E transactions \in Statements :
       \E btc \in LiveAnswers(StatementBTC), eth \in LiveAnswers(StatementETH) :
          eval = [op |-> "statement", transactions |-> transactions,
                  api |-> [symbol \in Symbols |->
                              IF symbol = "BTCUSDT" THEN btc ELSE eth]]

ValidateTransactions ==
    /\ eval.op = "statement"
    /\ eval' = [op |-> "validate_transactions",
                transactions |-> eval.transactions, api |-> eval.api,
                result |-> validate_transactions(eval.transactions, eval.api)]
    /\ UNCHANGED <<user_contributions, contribution_proofs, clock, runs, last_call>>

NextStatement == ValidateTransactions

SpecStatement == InitStatement /\ [][NextStatement]_vars

Validated == eval.op = "validate_transactions"

\* the statement rows that no live trade of their pair matches
UnmatchedRows ==
    {i \in 1..Len(eval.transactions) :
        ~found_match(eval.transactions[i],
                     eval.api[eval.transactions[i].symbol].trades)}

\* C16: validate_transactions returns success only if every statement
\* transaction of every pair has a matching live trade; one unmatched
\* transaction in any pair whose live trades were fetched (an empty answer
\* included) gives (False, reason naming that pair and timestamp).
C16_AllOrNothing ==
    Validated =>
        /\ (eval.result.returned /\ eval.result.ok) => UnmatchedRows = {}
        /\ (UnmatchedRows # {}
              /\ \A symbol \in Symbols : ~eval.api[symbol].raised)
           => /\ eval.result.returned
              /\ ~eval.result.ok
              /\ \E i \in UnmatchedRows :
                    /\ eval.result.reason.symbol = eval.transactions[i].symbol
                    /\ eval.result.reason.timestamp = eval.transactions[i].timestamp

\* the rows whose price is 1e-8 or more away from every live trade of
\* their pair
PriceOffRows ==
    {i \in 1..Len(eval.transactions) :
        LET tx == eval.transactions[i]
            api_trades == eval.api[tx.symbol].trades
        IN  \A j \in 1..Len(api_trades) :
               Abs(tx.price - api_trades[j].price) >= ValueTolerance}

\* C17: a statement with a row whose price differs from every live trade
\* of its pair by 1e-8 or more is never validated successfully.
C17_PriceOffRejected ==
    (Validated /\ PriceOffRows # {}) =>
        ~(eval.result.returned /\ eval.result.ok)

----------------------------------------------------------------------------
\* The two points calculators and the normalisation, as functions of their
\* arguments.

\* volumes at and just below every tier threshold
ScoringVolumes ==
    {0, 99, 100, 999, 1000, 9999, 10000, 99999, 100000, 999999, 1000000}

ScoringAssetList == <<"BTC", "ETH", "SOL", "ADA", "XRP", "DOT">>

ScoringAssetCounts == {0, 2, 3, 4, 5, 6}

ScoringDays == {0, 364, 365, 1094, 1095}

\* arguments of normalize_score: points >= 0, max_points > 0
PointsArgs == {0, 1, 315, 630, 631}

MaxPointsArgs == {1, 315, MAX_POINTS, 1000000}

\* ContributionScorer.calculate_score(stats), the whole PointsBreakdown
\* without its reason strings
PointsBreakdown(stats) ==
    [volume_points |-> calculate_volume_points(stats.total_volume),
     diversity_points |->
        calculate_diversity_points(Cardinality(stats.unique_assets)),
     history_points |-> calculate_history_points(stats.activity_period_days),
     total_points |-> calculate_score(stats)]

InitScoring ==
    /\ user_contributions = <<>>
    /\ contribution_proofs = <<>>
    /\ clock = 1
    /\ runs = [r \in RunIds |-> IdleRun]
    /\ last_call = NoCall
    /\ \/ \E volume \in ScoringVolumes, n \in ScoringAssetCounts,
             days \in ScoringDays :
            LET assets == {ScoringAssetList[i] : i \in 1..n}
            IN  eval = [op |-> "stats",
                        stats |-> [total_volume |-> volume,
                                   transaction_count |-> n,
                                   unique_assets |-> assets,
                                   activity_period_days |-> days],
                        stats_dict |-> [totalVolume |-> volume,
                                        transactionCount |-> n,
                                        uniqueAssets |-> assets,
                                        activityPeriodDays |-> days]]
       \/ \E points \in PointsArgs, max_points \in MaxPointsArgs :
            eval = [op |-> "points", points |-> points,
                    max_points |-> max_points]

CalculateScore ==
    /\ eval.op = "stats"
    /\ eval' = [op |-> "calculate_score", stats |-> eval.stats,
                result |-> PointsBreakdown(eval.stats)]
    /\ UNCHANGED <<user_contributions, contribution_proofs, clock, runs, last_call>>

\* Proof.calculate_reward_points and the score Proof.generate derives
\* from it (proof.py:325-332)
CalculateRewardPoints ==
    /\ eval.op = "stats"
    /\ eval' = [op |-> "calculate_reward_points", stats |-> eval.stats_dict,
                result |->
                  [total_points |-> calculate_reward_points(eval.stats_dict),
                   score |-> Min(calculate_reward_points(eval.stats_dict)
                                   * ScoreScale, One)]]
    /\ UNCHANGED <<user_contributions, contribution_proofs, clock, runs, last_call>>

NormalizeScore ==
    /\ eval.op = "points"
    /\ eval' = [op |-> "normalize_score", points |-> eval.points,
                max_points |-> eval.max_points,
                result |-> normalize_score(eval.points, eval.max_points)]
    /\ UNCHANGED <<user_contributions, contribution_proofs, clock, runs, last_call>>

NextScoring == CalculateScore \/ CalculateRewardPoints \/ NormalizeScore

SpecScoring == InitScoring /\ [][NextScoring]_vars

\* C18: calculate_score awards volume points 500/150/50/25/5/1 for
\* total_volume >= 1,000,000 / >= 100,000 / >= 10,000 / >= 1,000 / >= 100 /
\* otherwise, diversity points 30/10/0 for >= 5 / 3-4 / fewer unique assets
\* and history points 100/50/0 for >= 1095 / >= 365 / fewer days; the top
\* tier of all three gives total_points = 630, in calculate_reward_points
\* too.
C18_TierTable ==
    /\ eval.op = "calculate_score" =>
         LET volume == eval.stats.total_volume
             unique_assets == Cardinality(eval.stats.unique_assets)
             days == eval.stats.activity_period_days
             b == eval.result
         IN  /\ volume >= 1000000 => b.volume_points = 500
             /\ (volume >= 100000 /\ volume < 1000000) => b.volume_points = 150
             /\ (volume >= 10000 /\ volume < 100000) => b.volume_points = 50
             /\ (volume >= 1000 /\ volume < 10000) => b.volume_points = 25
             /\ (volume >= 100 /\ volume < 1000) => b.volume_points = 5
             /\ volume < 100 => b.volume_points = 1
             /\ unique_assets >= 5 => b.diversity_points = 30
             /\ unique_assets \in {3, 4} => b.diversity_points = 10
             /\ unique_assets < 3 => b.diversity_points = 0
             /\ days >= 1095 => b.history_points = 100
             /\ (days >= 365 /\ days < 1095) => b.history_points = 50
             /\ days < 365 => b.history_points = 0
             /\ (volume >= 1000000 /\ unique_assets >= 5 /\ days >= 1095)
                   => b.total_points = 630
    /\ eval.op = "calculate_reward_points" =>
         ((/\ eval.stats.totalVolume >= 1000000
           /\ Cardinality(eval.stats.uniqueAssets) >= 5
           /\ eval.stats.activityPeriodDays >= 1095)
            => eval.result.total_points = 630)

\* calculate_score has scored a snapshot that sits exactly on the three top
\* thresholds
C18_Witness ==
    /\ eval.op = "calculate_score"
    /\ eval.stats.total_volume = 1000000
    /\ Cardinality(eval.stats.unique_assets) = 5
    /\ eval.stats.activity_period_days = 1095
    /\ eval.result.total_points = 630

\* C19: both points calculators return 1 <= total_points <= 630 for every
\* TradingStats, the smallest ones included.
C19_PointsFloor ==
    eval.op \in {"calculate_score", "calculate_reward_points"} =>
        /\ 1 <= eval.result.total_points
        /\ eval.result.total_points <= 630

\* C20: the attestation score and normalize_score(points, max_points), for
\* points >= 0 and max_points > 0, lie in [0, 1].
C20_ScoreInUnitRange ==
    /\ eval.op = "normalize_score" => (0 <= eval.result /\ eval.result <= One)
    /\ eval.op = "calculate_reward_points" =>
          (0 <= eval.result.score /\ eval.result.score <= One)

\* C21: normalize_score is non-decreasing in points (p1 <= p2 implies
\* normalize_score(p1, m) <= normalize_score(p2, m)) and is at least
\* min_score for every points >= 1.
C21_NormalizeMonotone ==
    eval.op = "normalize_score" =>
        /\ \A p1 \in PointsArgs :
              p1 <= eval.points
                 => normalize_score(p1, eval.max_points) <= eval.result
        /\ \A p2 \in PointsArgs :
              eval.points <= p2
                 => eval.result <= normalize_score(p2, eval.max_points)
        /\ eval.points >= 1 => eval.result >= min_score

\* normalize_score has been applied where points / max_points is below
\* min_score, and returned min_score
C21_Witness ==
    /\ eval.op = "normalize_score"
    /\ eval.points = 1
    /\ eval.max_points = 1000000
    /\ eval.result = min_score

----------------------------------------------------------------------------
\* CoinbaseAPI (services/coinbase.py, and its copy in proof.py):
\* get_all_transactions with the requests it makes through _make_request.
\* The exchange holds, per account, a chain of pages; a page that is not the
\* last carries a next_uri with the cursor of the page after it.

MaxAccounts == 2

MaxPages == 2

MaxPageItems == 2

\* time.sleep(1) between attempts, in milliseconds
RetryDelay == 1000

\* time.sleep(0.1) after every page, in milliseconds
PageDelay == 100

\* for attempt in range(3): the index of the last attempt
LastAttempt == 2

\* starting_after = None
NoCursor == 0

\* the transactions of page p of account a, when the page holds n of them
PageData(a, p, n) == [k \in 1..n |-> a * 100 + p * 10 + k]

\* the response body of accounts/{a}/transactions for the page after cursor
\* starting_after, in an account whose pages hold sizes[1], sizes[2], ...
\* transactions
PageResponse(a, sizes, starting_after) ==
    LET p == starting_after + 1
    IN  [data |-> PageData(a, p, sizes[p]),
         pagination |->
            IF p < Len(sizes)
            THEN [next_uri |-> [account |-> a, starting_after |-> p]]
            ELSE [next_uri |-> NoneRec]]

\* next_uri.split('starting_after=')[1].split('&')[0]
CursorOf(next_uri) == next_uri.starting_after

\* a loop that stops after the first page of every account
has_more_never(next_uri) == FALSE

\* while has_more: the loop goes on exactly when the page has a next_uri
has_more_after(next_uri) == next_uri # NoneRec

\* the delay before the next attempt, with a doubling backoff
retry_delay_doubling(attempt) == RetryDelay * (2 ^ attempt)

\* the delay _make_request sleeps after failed attempt number attempt
retry_delay(attempt) == RetryDelay

\* the page sizes of every account of the exchange
Exchanges ==
    UNION {[1..n -> UNION {[1..m -> 0..MaxPageItems] : m \in 1..MaxPages}] :
              n \in 0..MaxAccounts}

InitConnector ==
    /\ user_contributions = <<>>
    /\ contribution_proofs = <<>>
    /\ clock = 1
    /\ runs = [r \in RunIds |-> IdleRun]
    /\ last_call = NoCall
    /\ \E exchange \in Exchanges :
          eval = [op |-> "get_all_transactions", exchange |-> exchange,
                  pc |-> "get_accounts", account |-> 0,
                  starting_after |-> NoCursor, attempt |-> 0,
                  http_log |-> <<>>, retry_sleeps |-> <<>>,
                  all_transactions |-> <<>>, page_sleeps |-> <<>>]

InRequest == eval.op = "get_all_transactions"
                /\ eval.pc \in {"get_accounts", "get_transactions"}

\* the attempts and sleeps of the HTTP call in progress
LogSoFar == IF eval.attempt = 0 THEN <<>> ELSE eval.http_log

SleepsSoFar == IF eval.attempt = 0 THEN <<>> ELSE eval.retry_sleeps

\* _make_request: an attempt that is not the last raises; sleep and retry
MakeRequestRetries ==
    /\ InRequest
    /\ eval.attempt < LastAttempt
    /\ eval' = [eval EXCEPT
                  !.attempt = @ + 1,
                  !.http_log = Append(LogSoFar, "error"),
                  !.retry_sleeps = Append(SleepsSoFar, retry_delay(eval.attempt))]
    /\ UNCHANGED <<user_contributions, contribution_proofs, clock, runs, last_call>>

\* _make_request: the last attempt raises; the exception leaves
\* get_all_transactions
MakeRequestRaises ==
    /\ InRequest
    /\ eval.attempt = LastAttempt
    /\ eval' = [eval EXCEPT
                  !.pc = "raised",
                  !.http_log = Append(LogSoFar, "error"),
                  !.retry_sleeps = SleepsSoFar]
    /\ UNCHANGED <<user_contributions, contribution_proofs, clock, runs, last_call>>

\* get_accounts: the attempt succeeds; the loop over the accounts starts
GetAccountsReturns ==
    /\ InRequest
    /\ eval.pc = "get_accounts"
    /\ eval' = [eval EXCEPT
                  !.pc = IF Len(eval.exchange) = 0 THEN "returned"
                         ELSE "get_transactions",
                  !.account = IF Len(eval.exchange) = 0 THEN 0 ELSE 1,
                  !.starting_after = NoCursor,
                  !.attempt = 0,
                  !.http_log = Append(LogSoFar, "ok"),
                  !.retry_sleeps = SleepsSoFar]
    /\ UNCHANGED <<user_contributions, contribution_proofs, clock, runs, last_call>>

\* get_transactions: the attempt succeeds; the page is appended, the cursor
\* followed, the inter-page delay slept
GetTransactionsReturns ==
    /\ InRequest
    /\ eval.pc = "get_transactions"
    /\ LET a == eval.account
           response == PageResponse(a, eval.exchange[a], eval.starting_after)
           next_uri == response.pagination.next_uri
           has_more == has_more_after(next_uri)
           last_account == a = Len(eval.exchange)
       IN  eval' = [eval EXCEPT
                  !.pc = IF ~has_more /\ last_account THEN "returned"
                         ELSE "get_transactions",
                  !.account = IF has_more \/ last_account THEN a ELSE a + 1,
                  !.starting_after = IF has_more THEN CursorOf(next_uri)
                                     ELSE NoCursor,
                  !.attempt = 0,
                  !.http_log = Append(LogSoFar, "ok"),
                  !.retry_sleeps = SleepsSoFar,
                  !.all_transactions = @ \o response.data,
                  !.page_sleeps = Append(@, PageDelay)]
    /\ UNCHANGED <<user_contributions, contribution_proofs, clock, runs, last_call>>

NextConnector ==
    \/ MakeRequestRetries
    \/ MakeRequestRaises
    \/ GetAccountsReturns
    \/ GetTransactionsReturns

SpecConnector == InitConnector /\ [][NextConnector]_vars

\* the connector is scheduled until it returns or raises
SpecConnectorLive == SpecConnector /\ WF_vars(NextConnector)

\* number of failed attempts in a log
RECURSIVE Failures(_)
Failures(log) ==
    IF log = <<>> THEN 0
    ELSE (IF Head(log) = "error" THEN 1 ELSE 0) + Failures(Tail(log))

\* C22: every HTTP call of the token connector makes at most 3 attempts,
\* ends at its first successful attempt, sleeps the same fixed delay after
\* each failed attempt that is not the last, and raises if and only if all
\* 3 attempts failed.
C22_ThreeAttempts ==
    eval.op = "get_all_transactions" =>
        /\ Len(eval.http_log) <= 3
        /\ \A i \in 1..(Len(eval.http_log) - 1) : eval.http_log[i] = "error"
        /\ Len(eval.retry_sleeps) = Min(Failures(eval.http_log), 2)
        /\ \A i \in 1..Len(eval.retry_sleeps) : eval.retry_sleeps[i] = RetryDelay
        /\ eval.pc = "raised" <=> eval.http_log = <<"error", "error", "error">>

\* a call has failed three times, slept twice, and raised
C22_Witness ==
    /\ eval.op = "get_all_transactions"
    /\ eval.pc = "raised"
    /\ eval.http_log = <<"error", "error", "error">>
    /\ eval.retry_sleeps = <<RetryDelay, RetryDelay>>
    /\ eval.all_transactions # <<>>

RECURSIVE PagesOf(_, _, _)
\* pages p, p + 1, ... of account a, concatenated
PagesOf(a, sizes, p) ==
    IF p > Len(sizes) THEN <<>>
    ELSE PageData(a, p, sizes[p]) \o PagesOf(a, sizes, p + 1)

RECURSIVE AccountsFrom(_, _)
\* every page of accounts a, a + 1, ..., concatenated
AccountsFrom(exchange, a) ==
    IF a > Len(exchange) THEN <<>>
    ELSE PagesOf(a, exchange[a], 1) \o AccountsFrom(exchange, a + 1)

RECURSIVE PageCount(_, _)
PageCount(exchange, a) ==
    IF a > Len(exchange) THEN 0
    ELSE Len(exchange[a]) + PageCount(exchange, a + 1)

\* C27: get_all_transactions terminates (it returns, or a request raises),
\* and what it returns is the concatenation, in account and page order, of
\* every page of every account, with one inter-page delay slept per page
\* fetched.
C27_FetchAllPages ==
    /\ [](eval.pc = "returned" =>
            /\ eval.all_transactions = AccountsFrom(eval.exchange, 1)
            /\ eval.page_sleeps
                  = [i \in 1..PageCount(eval.exchange, 1) |-> PageDelay])
    /\ <>(eval.pc \in {"returned", "raised"})

\* two accounts of two pages each have been fetched and returned
C27_Witness ==
    /\ eval.op = "get_all_transactions"
    /\ eval.pc = "returned"
    /\ Len(eval.exchange) = 2
    /\ \A a \in 1..2 : Len(eval.exchange[a]) = 2
    /\ Len(eval.all_transactions) >= 4
    /\ Len(eval.page_sleeps) = 4

----------------------------------------------------------------------------
\* BinanceAPI.get_my_trades (services/binance.py:126-180) with the requests
\* it makes through BinanceAPI._make_request.  The exchange holds trades
\* 1..total of the symbol; a request without fromId is answered with the
\* most recent `limit` of them, a request with fromId with the trades from
\* that id on, `limit` at most.

\* limit = 1000, the maximum the endpoint allows
limit == 1000

\* (2 ** attempt) * 0.1 seconds, in milliseconds: the factor 0.1
BackoffBase == 100

\* params without "fromId"
NoFromId == 0

TradeTotals == {0, 1, limit - 1, limit, limit + 1, 2 * limit}

\* exceptions of _make_request that mean the credentials were refused:
\* proxy status 401, and the exchange rejecting the API key
AuthFailures == {"Invalid proxy API key", "Binance API error: invalid API key"}

\* exceptions that mean the exchange or the proxy is unavailable, and the
\* response that is not a list
TransientFailures == {"Proxy request failed", "Unexpected response format"}

RequestFailures == AuthFailures \cup TransientFailures

\* the list /api/v3/myTrades answers with
MyTradesResponse(total, fromId) ==
    LET first == IF fromId = NoFromId THEN Max(total - limit + 1, 1) ELSE fromId
        n == Min(total - first + 1, limit)
    IN  [i \in 1..Max(n, 0) |-> [id |-> first + i - 1]]

\* wait_time = (2 ** attempt) * 0.1
wait_time(attempt) == (2 ^ attempt) * BackoffBase

InitTrades ==
    /\ user_contributions = <<>>
    /\ contribution_proofs = <<>>
    /\ clock = 1
    /\ runs = [r \in RunIds |-> IdleRun]
    /\ last_call = NoCall
    /\ \E total \in TradeTotals :
          eval = [op |-> "get_my_trades", total |-> total, pc |-> "request",
                  attempt |-> 0, fromId |-> NoFromId, http_log |-> <<>>,
                  sleeps |-> <<>>, trades |-> <<>>]

TradesInRequest == eval.op = "get_my_trades" /\ eval.pc = "request"

\* the request, or the test for a list, raises on an attempt that is not
\* the last: sleep and retry (lines 169-174)
GetMyTradesRetries ==
    /\ TradesInRequest
    /\ eval.attempt < 2
    /\ \E e \in RequestFailures :
          eval' = [eval EXCEPT
                     !.attempt = @ + 1,
                     !.http_log = Append(@, e),
                     !.sleeps = Append(@, wait_time(eval.attempt))]
    /\ UNCHANGED <<user_contributions, contribution_proofs, clock, runs, last_call>>

\* the last attempt raises: the exception leaves get_my_trades (170-172,
\* 178-180)
GetMyTradesRaises ==
    /\ TradesInRequest
    /\ eval.attempt = 2
    /\ \E e \in RequestFailures :
          eval' = [eval EXCEPT !.pc = "raised", !.http_log = Append(@, e)]
    /\ UNCHANGED <<user_contributions, contribution_proofs, clock, runs, last_call>>

\* an attempt succeeds: extend trades, note fromId when the page is full,
\* leave the loop and return (lines 151-167, 176)
GetMyTradesReturns ==
    /\ TradesInRequest
    /\ LET response_data == MyTradesResponse(eval.total, eval.fromId)
       IN  eval' = [eval EXCEPT
                      !.pc = "returned",
                      !.http_log = Append(@, "ok"),
                      !.trades = @ \o response_data,
                      !.fromId =
                          IF Len(response_data) < limit THEN @
                          ELSE response_data[Len(response_data)].id]
    /\ UNCHANGED <<user_contributions, contribution_proofs, clock, runs, last_call>>

NextTrades == GetMyTradesRetries \/ GetMyTradesRaises \/ GetMyTradesReturns

SpecTrades == InitTrades /\ [][NextTrades]_vars

\* C23: no attempt follows an authentication failure of the signed
\* connector: the failure is the only attempt of the request and the call
\* has raised; a transient failure is retried, up to 3 attempts, after a
\* sleep of 0.1s * 2^attempt.
C23_AuthNotRetried ==
    eval.op = "get_my_trades" =>
        /\ \A i \in 1..Len(eval.http_log) :
              eval.http_log[i] \in AuthFailures
                 => (Len(eval.http_log) = 1 /\ eval.pc = "raised")
        /\ Len(eval.http_log) <= 3
        /\ \A i \in 1..Len(eval.sleeps) :
              eval.sleeps[i] = BackoffBase * (2 ^ (i - 1))

\* C28: get_my_trades returns all the trades the exchange holds for the
\* symbol, also when there are more than one full page of them.
C28_AllTradesReturned ==
    (eval.op = "get_my_trades" /\ eval.pc = "returned") =>
        eval.trades = [i \in 1..eval.total |-> [id |-> i]]

\* the live trade fetch of the first pair of the statement raised: every
\* attempt of get_my_trades failed
FirstFetchExhausted ==
    /\ eval.transactions # <<>>
    /\ eval.api[eval.transactions[1].symbol].raised

\* C24: when the live trade fetch of a pair has exhausted its attempts,
\* validate_transactions does not hand back an ordinary validation failure
\* (False, reason): the exception leaves it.
C24_ExhaustionIsFatal ==
    (Validated /\ FirstFetchExhausted) =>
        ~(eval.result.returned /\ ~eval.result.ok)

\* C29: validate_transactions returns a (bool, reason) pair for every
\* statement and every answer of the exchange; it never ends without a
\* return value.
C29_AlwaysReturnsPair ==
    Validated => eval.result.returned

\* the UserContribution rows of identity h
RecordsOf(h) ==
    {i \in 1..Len(user_contributions) : user_contributions[i].account_id_hash = h}

\* C26: after any sequence of store_contribution calls every identity has
\* at most one UserContribution row, and has one exactly when it has a
\* proof row; no call deletes a row or moves it to another identity, and a
\* rewarded call for an identity that has a row updates that row in place.
C26_OneRecordPerIdentity ==
    /\ [](\A h \in Identities :
            /\ Cardinality(RecordsOf(h)) <= 1
            /\ RecordsOf(h) # {} <=> ProofsOf(contribution_proofs, h) # <<>>)
    /\ [][ /\ Len(user_contributions') >= Len(user_contributions)
           /\ \A i \in 1..Len(user_contributions) :
                 /\ user_contributions'[i].account_id_hash
                       = user_contributions[i].account_id_hash
                 /\ user_contributions'[i].first_contribution_at
                       = user_contributions[i].first_contribution_at
           /\ (/\ last_call'.op = "store_contribution"
               /\ Len(contribution_proofs') > Len(contribution_proofs)
               /\ RecordsOf(last_call'.account_id_hash) # {})
              => /\ Len(user_contributions') = Len(user_contributions)
                 /\ \A i \in RecordsOf(last_call'.account_id_hash) :
                       /\ user_contributions'[i].latest_contribution_at = clock
                       /\ user_contributions'[i].latest_score
                            = contribution_proofs'[Len(contribution_proofs')].score
      ]_vars

\* an identity has been rewarded twice and has one row, updated after it was
\* created, while the other identity has a row of its own
C26_Witness ==
    /\ Len(ProofsOf(contribution_proofs, "h1")) >= 2
    /\ Cardinality(RecordsOf("h1")) = 1
    /\ \A i \in RecordsOf("h1") :
          user_contributions[i].latest_contribution_at
             > user_contributions[i].first_contribution_at
    /\ RecordsOf("h2") # {}

\* C30: the stored times_rewarded of every UserContribution is 0, whatever
\* store_contribution calls were made, while check_existing_contribution
\* reports the number of proof rows of the identity with score > 0.
C30_TimesRewardedStaysZero ==
    /\ \A i \in 1..Len(user_contributions) :
          user_contributions[i].times_rewarded = 0
    /\ (/\ last_call.op = "check_existing_contribution"
        /\ ~last_call.raised
        /\ last_call.result[1])
       => last_call.result[2].times_rewarded
             = CountRewarded(ProofsOf(contribution_proofs,
                                      last_call.account_id_hash))

\* an identity was rewarded twice, its stored counter is 0 and the lookup
\* reports 2
C30_Witness ==
    /\ last_call.op = "check_existing_contribution"
    /\ ~last_call.raised
    /\ last_call.result[1]
    /\ last_call.result[2].times_rewarded = 2
    /\ \E i \in RecordsOf(last_call.account_id_hash) :
          user_contributions[i].times_rewarded = 0

----------------------------------------------------------------------------
\* run() of __main__.py around Proof.generate: the exit status of every run
\* and the results.json it leaves in its output directory.

\* the process has not exited
NotExited == -1

Running == [exit_status |-> NotExited, results_json |-> NoneRec, error |-> "none"]

\* variant: results.json is written in any case, from whatever response
\* there is
run_outcome_always_writes(error, proof_response) ==
    [exit_status |-> IF error = "none" THEN 0 ELSE 1,
     results_json |-> proof_response,
     error |-> error]

\* lines 58-70: the response is dumped to results.json after generate has
\* returned; any exception is logged and ends the process with sys.exit(1)
run_outcome(error, proof_response) ==
    [exit_status |-> IF error = "none" THEN 0 ELSE 1,
     results_json |-> IF error = "none" THEN proof_response ELSE NoneRec,
     error |-> error]

\* what can raise in run() before Proof.generate reads the ledger: db.init
\* (SQLAlchemyError), the input directory test (FileNotFoundError), and in
\* generate the missing token or file (ValueError), the exchange request
\* (HTTPError) and the lookup session (SQLAlchemyError)
EarlyErrors == {"SQLAlchemyError", "FileNotFoundError", "ValueError", "HTTPError"}

InitRun ==
    /\ user_contributions = <<>>
    /\ contribution_proofs = <<>>
    /\ clock = 1
    /\ runs = [r \in RunIds |-> IdleRun]
    /\ last_call = NoCall
    /\ eval = [op |-> "run", outcome |-> [r \in RunIds |-> Running]]

\* run() raises before generate has assembled a response
RunFailsEarly(r) ==
    /\ MayStart(r)
    /\ \E e \in EarlyErrors :
         /\ runs' = [runs EXCEPT ![r].pc = "raised", ![r].error = e]
         /\ eval' = [eval EXCEPT !.outcome[r] = run_outcome(e, NoneRec)]
    /\ UNCHANGED <<user_contributions, contribution_proofs, clock, last_call>>

\* run() up to the response generate has assembled, before its store
RunCheck(r) == GenerateCheck(r)

\* generate stores and returns, or its session raises; then run() writes
\* results.json (open may raise OSError) and returns, or exits with 1
RunStore(r) ==
    /\ runs[r].pc = "checked"
    /\ \E fault \in DbFaults, opened \in BOOLEAN :
       LET after == Proof_store_contribution(Tables, runs[r].account_id_hash,
                        runs[r].stats, runs[r].proof_response, clock, fault)
           stored == Len(after.contribution_proofs) > Len(contribution_proofs)
           error == IF fault # "none" THEN "SQLAlchemyError"
                    ELSE IF ~opened THEN "OSError" ELSE "none"
       IN  /\ fault # "none" => opened
           /\ user_contributions' = after.user_contributions
           /\ contribution_proofs' = after.contribution_proofs
           /\ clock' = IF stored THEN clock + 1 ELSE clock
           /\ runs' = [runs EXCEPT
                         ![r].pc = IF fault = "none" THEN "returned" ELSE "raised",
                         ![r].error = IF fault = "none" THEN "none"
                                      ELSE "SQLAlchemyError",
                         ![r].proof_row =
                             IF stored THEN Len(after.contribution_proofs) ELSE 0]
           /\ eval' = [eval EXCEPT
                         !.outcome[r] = run_outcome(error, runs[r].proof_response)]
    /\ UNCHANGED last_call

NextRun ==
    \E r \in RunIds :
        \/ RunFailsEarly(r)
        \/ RunCheck(r)
        \/ RunStore(r)

SpecRun == InitRun /\ [][NextRun]_vars

=============================================================================
